---- MODULE Spec2Model ----
(***************************************************************************)
(* BaseDataSource (src/app/projects/data-sources/src/lib/                  *)
(* base.data-source.ts): a reactive container over a list of items.        *)
(*                                                                         *)
(* Strings are sequences of one-character strings, so that trimming,       *)
(* lower-casing and substring search are computed as the code computes     *)
(* them.  A BehaviorSubject is modelled by its current value (`_value`),   *)
(* its membership in `completed` (isStopped) and by the next-notifications *)
(* it delivers, which are logged in `emitted` for the step that made them. *)
(* The async functions are cut at their awaits; the continuations of the   *)
(* outer functions run in the order in which the inner promises settled    *)
(* (the microtask queue is first-in first-out), which `settleQueue` keeps. *)
(***************************************************************************)
EXTENDS Integers, Sequences, FiniteSets, TLC

VARIABLES
    data,             \* data$.value
    count,            \* count$.value
    initialized,      \* this.initialized
    loading,          \* loading$.value
    itemLoading,      \* itemLoading$.value
    allowLocalFilter, \* the subclass's allowLocalFilter
    filter,           \* filter$.value
    overridden,       \* does the subclass override transformDataItems?
    completed,        \* the subjects that have completed
    calls,            \* the initialize()/refresh() calls made so far
    settleQueue,      \* calls whose initializeData() promise has settled and
                      \* whose outer continuation is still queued
    lastWriter,       \* the call whose initializeData wrote data$ last (0: constructor or reset)
    lastResolved,     \* the call whose promise resolved last (0: none)
    lastOp,           \* the step taken last
    emitted           \* the next-notifications delivered to subscribers by the last step, in order

vars == <<data, count, initialized, loading, itemLoading, allowLocalFilter, filter,
          overridden, completed, calls, settleQueue, lastWriter, lastResolved,
          lastOp, emitted>>

(***************************************************************************)
(* Bounds                                                                  *)
(***************************************************************************)
MaxCalls == 2

\* the longest list the filter is tried on
MaxItems == 2

(***************************************************************************)
(* Values                                                                  *)
(***************************************************************************)
\* a field value: null/undefined, or something with a toString()
NullValue == [isNull |-> TRUE, text |-> <<>>]
Text(s) == [isNull |-> FALSE, text |-> s]

\* an entry of the list: a falsy entry (null/undefined) or a reference to an object
NullItem == "null"
ItemAl == "Al"
ItemBo == "Bo"
ItemFoO == "FoO"
ItemNoFields == "NoFields"

\* !!item
Truthy(item) == item # NullItem

\* the values of the object's own fields, in key order
Fields(item) ==
    CASE item = ItemAl -> <<Text(<<"A", "l">>), Text(<<"R", "e", "n", "o">>)>>
      [] item = ItemBo -> <<Text(<<"B", "o">>), NullValue>>
      [] item = ItemFoO -> <<Text(<<"f", "o">>), Text(<<"o">>)>>
      [] OTHER -> <<>>

\* a length that counts every entry
actualDataLengthAll(d) == Len(d)

\* get actualDataLength, for data$.value = d: d.filter(a => !!a).length
actualDataLength(d) == Len(SelectSeq(d, Truthy))

\* PageableResult<T>: results and an optional count
Pageable(rs, h, c) == [results |-> rs, hasCount |-> h, count |-> c]

EmptyResult == Pageable(<<>>, FALSE, 0)

\* what a retrieval or an overriding transform may resolve with
SampleResults ==
    { Pageable(<<ItemAl, ItemBo>>, TRUE, 5),
      Pageable(<<ItemBo, ItemAl>>, FALSE, 0),
      Pageable(<<NullItem, ItemAl>>, TRUE, 0) }

\* what a retrieval or a transform may reject with
Errors == {"E1", "E2"}

\* the texts a consumer types into the filter
FilterTexts == { <<>>, <<"a", "l">> }

(***************************************************************************)
(* Local filtering                                                         *)
(***************************************************************************)
\* the three characters of the string literal that closes every field
Delimiter == <<"d1", "d2", "d3">>

Whitespace == {" "}

\* String.prototype.toLowerCase, one character
LowerChar(ch) ==
    CASE ch = "A" -> "a"
      [] ch = "B" -> "b"
      [] ch = "F" -> "f"
      [] ch = "L" -> "l"
      [] ch = "O" -> "o"
      [] ch = "R" -> "r"
      [] OTHER -> ch

ToLowerCase(s) == [i \in 1..Len(s) |-> LowerChar(s[i])]

RECURSIVE TrimStart(_)
TrimStart(s) ==
    IF s # <<>> /\ Head(s) \in Whitespace THEN TrimStart(Tail(s)) ELSE s

RECURSIVE TrimEnd(_)
TrimEnd(s) ==
    IF s # <<>> /\ s[Len(s)] \in Whitespace THEN TrimEnd(SubSeq(s, 1, Len(s) - 1)) ELSE s

\* String.prototype.trim
Trim(s) == TrimEnd(TrimStart(s))

\* hay.indexOf(needle) != -1
Contains(hay, needle) ==
    \E i \in 0..(Len(hay) - Len(needle)) : SubSeq(hay, i + 1, i + Len(needle)) = needle

propToString(value) == IF value.isNull THEN <<>> ELSE value.text

\* Object.keys(data).reduce(...) of filterPredicate, before toLowerCase
RECURSIVE DataStr(_)
DataStr(fields) ==
    IF fields = <<>> THEN <<>>
    ELSE propToString(Head(fields)) \o Delimiter \o DataStr(Tail(fields))

\* a predicate that does not trim the filter
filterPredicateNoTrim(item, f) ==
    Contains(ToLowerCase(DataStr(Fields(item))), ToLowerCase(f))

\* a predicate that lower-cases the filter only
filterPredicateCaseSensitive(item, f) ==
    Contains(DataStr(Fields(item)), ToLowerCase(Trim(f)))

filterPredicate(item, f) ==
    Contains(ToLowerCase(DataStr(Fields(item))), ToLowerCase(Trim(f)))

\* a view without the `item &&` guard: Object.keys(null) throws a TypeError, which the
\* stream delivers instead of a list
FilteredViewUnguarded(d, f) ==
    IF f = <<>> \/ ~allowLocalFilter THEN d
    ELSE IF \E k \in 1..Len(d) : ~Truthy(d[k]) THEN <<"TypeError">>
    ELSE SelectSeq(d, LAMBDA item : filterPredicate(item, f))

\* a view that lists what it keeps last entry first
FilteredViewReversed(d, f) ==
    LET kept == IF f = <<>> \/ ~allowLocalFilter THEN d
                ELSE SelectSeq(d, LAMBDA item : Truthy(item) /\ filterPredicate(item, f))
    IN  [i \in 1..Len(kept) |-> kept[Len(kept) + 1 - i]]

\* a view that filters whatever allowLocalFilter says
FilteredViewAlways(d, f) ==
    IF f = <<>> THEN d
    ELSE SelectSeq(d, LAMBDA item : Truthy(item) /\ filterPredicate(item, f))

\* the value filteredData$ delivers for data$.value = d and filter$.value = f
FilteredView(d, f) ==
    IF f = <<>> \/ ~allowLocalFilter THEN d
    ELSE SelectSeq(d, LAMBDA item : Truthy(item) /\ filterPredicate(item, f))

(***************************************************************************)
(* Subjects                                                                *)
(***************************************************************************)
Notification(stream, value) == [stream |-> stream, value |-> value]

\* subject.next(v) as seen by the subscribers of the subject: nothing once it has completed
SubjectNext(stream, v) ==
    IF stream \in completed THEN <<>> ELSE <<Notification(stream, v)>>

\* data$.next(d) behind a distinctUntilChanged(): an unchanged list is not passed on
DataNextDistinct(d) ==
    IF "data$" \in completed \/ d = data THEN <<>>
    ELSE <<Notification("data$", d), Notification("filteredData$", FilteredView(d, filter))>>

\* data$.next(d) with the view computed from the list that d replaces
DataNextStale(d) ==
    IF "data$" \in completed THEN <<>>
    ELSE <<Notification("data$", d), Notification("filteredData$", FilteredView(data, filter))>>

\* data$.next(d): the subscribers of data$, then those of filteredData$ (mergeWith(data$))
DataNext(d) ==
    IF "data$" \in completed THEN <<>>
    ELSE <<Notification("data$", d), Notification("filteredData$", FilteredView(d, filter))>>

\* filter$.next(f) where repeating the current text switches the filter off
FilterNextToggle(f) ==
    IF "filter$" \in completed THEN <<>>
    ELSE <<Notification("filter$", f),
           Notification("filteredData$", IF f = filter THEN data ELSE FilteredView(data, f))>>

\* filter$.next(f): the subscribers of filter$, then those of filteredData$
FilterNext(f) ==
    IF "filter$" \in completed THEN <<>>
    ELSE <<Notification("filter$", f), Notification("filteredData$", FilteredView(data, f))>>

(***************************************************************************)
(* The calls                                                               *)
(***************************************************************************)
Call(kind, pc, value, error) == [kind |-> kind, pc |-> pc, value |-> value, error |-> error]

Op(op, call) == [op |-> op, call |-> call]

InFlight == {"retrieving", "transforming", "published", "failed"}

Init ==
    /\ data = <<>>
    /\ count = 0
    /\ initialized = FALSE
    /\ loading = FALSE
    /\ itemLoading = FALSE
    /\ allowLocalFilter \in BOOLEAN
    /\ filter = <<>>
    /\ overridden \in BOOLEAN
    /\ completed = {}
    /\ calls = <<>>
    /\ settleQueue = <<>>
    /\ lastWriter = 0
    /\ lastResolved = 0
    /\ lastOp = Op("constructor", 0)
    /\ emitted = <<>>

\* initialize() that returns at once when the data source is already initialized
InitializeGuarded ==
    /\ ~initialized
    /\ Len(calls) < MaxCalls
    /\ initialized' = TRUE
    /\ loading' = TRUE
    /\ emitted' = SubjectNext("loading$", TRUE)
    /\ calls' = Append(calls, Call("initialize", "retrieving", EmptyResult, "none"))
    /\ lastOp' = Op("initialize", Len(calls) + 1)
    /\ UNCHANGED <<data, count, itemLoading, allowLocalFilter, filter, overridden,
                   completed, settleQueue, lastWriter, lastResolved>>

\* initialize() up to its await: retrieveDataItems() has been called
Initialize ==
    /\ Len(calls) < MaxCalls
    /\ initialized' = TRUE
    /\ loading' = TRUE
    /\ emitted' = SubjectNext("loading$", TRUE)
    /\ calls' = Append(calls, Call("initialize", "retrieving", EmptyResult, "none"))
    /\ lastOp' = Op("initialize", Len(calls) + 1)
    /\ UNCHANGED <<data, count, itemLoading, allowLocalFilter, filter, overridden,
                   completed, settleQueue, lastWriter, lastResolved>>

\* refresh() that marks the data source initialized, as initialize() does
RefreshInitializes ==
    /\ Len(calls) < MaxCalls
    /\ initialized' = TRUE
    /\ loading' = TRUE
    /\ emitted' = SubjectNext("loading$", TRUE)
    /\ calls' = Append(calls, Call("refresh", "retrieving", EmptyResult, "none"))
    /\ lastOp' = Op("refresh", Len(calls) + 1)
    /\ UNCHANGED <<data, count, itemLoading, allowLocalFilter, filter,
                   overridden, completed, settleQueue, lastWriter, lastResolved>>

\* refresh() up to its await
Refresh ==
    /\ Len(calls) < MaxCalls
    /\ loading' = TRUE
    /\ emitted' = SubjectNext("loading$", TRUE)
    /\ calls' = Append(calls, Call("refresh", "retrieving", EmptyResult, "none"))
    /\ lastOp' = Op("refresh", Len(calls) + 1)
    /\ UNCHANGED <<data, count, initialized, itemLoading, allowLocalFilter, filter,
                   overridden, completed, settleQueue, lastWriter, lastResolved>>

\* retrieveDataItems() resolves with R: retrieveFinalData calls transformDataItems(R)
RetrievalResolves(c, R) ==
    /\ calls[c].pc = "retrieving"
    /\ calls' = [calls EXCEPT ![c] = Call(@.kind, "transforming", R, "none")]
    /\ lastOp' = Op("retrieved", c)
    /\ emitted' = <<>>
    /\ UNCHANGED <<data, count, initialized, loading, itemLoading, allowLocalFilter, filter,
                   overridden, completed, settleQueue, lastWriter, lastResolved>>

\* retrieveDataItems() rejects with e: retrieveFinalData and initializeData reject with e
RetrievalRejects(c, e) ==
    /\ calls[c].pc = "retrieving"
    /\ calls' = [calls EXCEPT ![c] = Call(@.kind, "failed", EmptyResult, e)]
    /\ settleQueue' = Append(settleQueue, c)
    /\ lastOp' = Op("retrievalRejected", c)
    /\ emitted' = <<>>
    /\ UNCHANGED <<data, count, initialized, loading, itemLoading, allowLocalFilter, filter,
                   overridden, completed, lastWriter, lastResolved>>

\* a default transformDataItems that reverses the list and drops the count
transformDataItemsReversed(R) ==
    Pageable([i \in 1..Len(R.results) |-> R.results[Len(R.results) + 1 - i]], FALSE, 0)

\* the default transformDataItems
transformDataItems(R) == R

\* transformedData.count || transformedData.results.length
TotalCount(T) == IF T.hasCount /\ T.count # 0 THEN T.count ELSE Len(T.results)

\* initializeData publishing what retrieveDataItems gave instead of the transformed data
initializeDataRaw(c, T) ==
    /\ data' = calls[c].value.results
    /\ count' = TotalCount(calls[c].value)
    /\ emitted' = DataNext(calls[c].value.results) \o SubjectNext("count$", TotalCount(calls[c].value))
    /\ lastWriter' = c

\* initializeData with a sequencing token: only the call issued last may publish
initializeDataSequenced(c, T) ==
    IF c = Len(calls)
    THEN /\ data' = T.results
         /\ count' = TotalCount(T)
         /\ emitted' = DataNext(T.results) \o SubjectNext("count$", TotalCount(T))
         /\ lastWriter' = c
    ELSE /\ emitted' = <<>>
         /\ UNCHANGED <<data, count, lastWriter>>

\* initializeData that writes count$ only when the result carries a count
initializeDataKeepsCount(c, T) ==
    /\ data' = T.results
    /\ count' = IF T.hasCount THEN T.count ELSE count
    /\ emitted' = DataNext(T.results)
                    \o (IF T.hasCount THEN SubjectNext("count$", T.count) ELSE <<>>)
    /\ lastWriter' = c

\* initializeData that publishes the count before the list
initializeDataCountFirst(c, T) ==
    /\ data' = T.results
    /\ count' = TotalCount(T)
    /\ emitted' = SubjectNext("count$", TotalCount(T)) \o DataNext(T.results)
    /\ lastWriter' = c

\* initializeData after its await, for the transformed data T of call c
initializeData(c, T) ==
    /\ data' = T.results
    /\ count' = TotalCount(T)
    /\ emitted' = DataNext(T.results) \o SubjectNext("count$", TotalCount(T))
    /\ lastWriter' = c

\* transformDataItems() resolves with T: initializeData publishes it and returns it
TransformResolves(c, T) ==
    /\ calls[c].pc = "transforming"
    /\ IF overridden THEN TRUE ELSE T = transformDataItems(calls[c].value)
    /\ initializeData(c, T)
    /\ calls' = [calls EXCEPT ![c] = Call(@.kind, "published", T, "none")]
    /\ settleQueue' = Append(settleQueue, c)
    /\ lastOp' = Op("published", c)
    /\ UNCHANGED <<initialized, loading, itemLoading, allowLocalFilter, filter,
                   overridden, completed, lastResolved>>

\* a failed transform that leaves what was retrieved in data$
TransformRejectsPartial(c, e) ==
    /\ calls[c].pc = "transforming"
    /\ overridden
    /\ data' = calls[c].value.results
    /\ lastWriter' = c
    /\ calls' = [calls EXCEPT ![c] = Call(@.kind, "failed", EmptyResult, e)]
    /\ settleQueue' = Append(settleQueue, c)
    /\ lastOp' = Op("transformRejected", c)
    /\ emitted' = DataNext(calls[c].value.results)
    /\ UNCHANGED <<count, initialized, loading, itemLoading, allowLocalFilter, filter,
                   overridden, completed, lastResolved>>

\* a failed transform that is retried: retrieveFinalData() is run again
TransformRejectsRetry(c, e) ==
    /\ calls[c].pc = "transforming"
    /\ overridden
    /\ calls' = [calls EXCEPT ![c] = Call(@.kind, "retrieving", EmptyResult, "none")]
    /\ lastOp' = Op("transformRejected", c)
    /\ emitted' = <<>>
    /\ UNCHANGED <<data, count, initialized, loading, itemLoading, allowLocalFilter, filter,
                   overridden, completed, settleQueue, lastWriter, lastResolved>>

\* an overriding transformDataItems() rejects with e: initializeData rejects with e
TransformRejects(c, e) ==
    /\ calls[c].pc = "transforming"
    /\ overridden
    /\ calls' = [calls EXCEPT ![c] = Call(@.kind, "failed", EmptyResult, e)]
    /\ settleQueue' = Append(settleQueue, c)
    /\ lastOp' = Op("transformRejected", c)
    /\ emitted' = <<>>
    /\ UNCHANGED <<data, count, initialized, loading, itemLoading, allowLocalFilter, filter,
                   overridden, completed, lastWriter, lastResolved>>

\* the promise of call c with a catch-all around initializeData(): it always resolves
SettledSwallowing(c) ==
    /\ calls' = [calls EXCEPT ![c].pc = "resolved"]
    /\ settleQueue' = Tail(settleQueue)
    /\ lastResolved' = IF calls[c].pc = "published" THEN c ELSE lastResolved
    /\ lastOp' = Op("settled", c)

\* the promise of call c settles as its initializeData() did
Settled(c) ==
    /\ calls' = [calls EXCEPT ![c].pc = IF @ = "published" THEN "resolved" ELSE "rejected"]
    /\ settleQueue' = Tail(settleQueue)
    /\ lastResolved' = IF calls[c].pc = "published" THEN c ELSE lastResolved
    /\ lastOp' = Op("settled", c)

\* initialize() without its try/finally: loading$ is reset only when initializeData() resolved
InitializeSettlesNoFinally ==
    /\ settleQueue # <<>>
    /\ calls[Head(settleQueue)].kind = "initialize"
    /\ IF calls[Head(settleQueue)].pc = "published"
       THEN /\ loading' = FALSE
            /\ emitted' = SubjectNext("loading$", FALSE)
       ELSE /\ loading' = loading
            /\ emitted' = <<>>
    /\ Settled(Head(settleQueue))
    /\ UNCHANGED <<data, count, initialized, itemLoading, allowLocalFilter, filter,
                   overridden, completed, lastWriter>>

\* initialize() after its await: the finally block, whatever initializeData() did
InitializeSettles ==
    /\ settleQueue # <<>>
    /\ calls[Head(settleQueue)].kind = "initialize"
    /\ loading' = FALSE
    /\ emitted' = SubjectNext("loading$", FALSE)
    /\ Settled(Head(settleQueue))
    /\ UNCHANGED <<data, count, initialized, itemLoading, allowLocalFilter, filter,
                   overridden, completed, lastWriter>>

\* refresh() after its await: the rest of the body runs only when initializeData() resolved
RefreshSettles ==
    /\ settleQueue # <<>>
    /\ calls[Head(settleQueue)].kind = "refresh"
    /\ IF calls[Head(settleQueue)].pc = "published"
       THEN /\ loading' = FALSE
            /\ emitted' = SubjectNext("loading$", FALSE)
       ELSE /\ loading' = loading
            /\ emitted' = <<>>
    /\ Settled(Head(settleQueue))
    /\ UNCHANGED <<data, count, initialized, itemLoading, allowLocalFilter, filter,
                   overridden, completed, lastWriter>>

\* reset() that clears data$ only
ResetDataOnly ==
    /\ data' = <<>>
    /\ emitted' = DataNext(<<>>)
    /\ lastWriter' = 0
    /\ lastOp' = Op("reset", 0)
    /\ UNCHANGED <<count, initialized, loading, itemLoading, allowLocalFilter, filter,
                   overridden, completed, calls, settleQueue, lastResolved>>

\* reset() that also hides the loading indicator
ResetStopsLoading ==
    /\ data' = <<>>
    /\ count' = 0
    /\ loading' = FALSE
    /\ emitted' = DataNext(<<>>) \o SubjectNext("count$", 0) \o SubjectNext("loading$", FALSE)
    /\ lastWriter' = 0
    /\ lastOp' = Op("reset", 0)
    /\ UNCHANGED <<initialized, itemLoading, allowLocalFilter, filter, overridden,
                   completed, calls, settleQueue, lastResolved>>

\* reset() that cancels the cycles in flight: they fail instead of publishing
ResetCancels ==
    /\ data' = <<>>
    /\ count' = 0
    /\ emitted' = DataNext(<<>>) \o SubjectNext("count$", 0)
    /\ lastWriter' = 0
    /\ lastOp' = Op("reset", 0)
    /\ calls' = [c \in 1..Len(calls) |->
                    IF calls[c].pc \in {"retrieving", "transforming"}
                    THEN Call(calls[c].kind, "failed", EmptyResult, "E1")
                    ELSE calls[c]]
    /\ settleQueue' = settleQueue \o SelectSeq([c \in 1..Len(calls) |-> c],
                           LAMBDA c : calls[c].pc \in {"retrieving", "transforming"})
    /\ UNCHANGED <<initialized, loading, itemLoading, allowLocalFilter, filter, overridden,
                   completed, lastResolved>>

\* reset()
Reset ==
    /\ data' = <<>>
    /\ count' = 0
    /\ emitted' = DataNext(<<>>) \o SubjectNext("count$", 0)
    /\ lastWriter' = 0
    /\ lastOp' = Op("reset", 0)
    /\ UNCHANGED <<initialized, loading, itemLoading, allowLocalFilter, filter, overridden,
                   completed, calls, settleQueue, lastResolved>>

\* filter$.next(f) that also recounts: count$ becomes the length of the filtered view
SetFilterTextRecounts(f) ==
    /\ filter' = f
    /\ count' = Len(FilteredView(data, f))
    /\ emitted' = FilterNext(f) \o SubjectNext("count$", Len(FilteredView(data, f)))
    /\ lastOp' = Op("setFilterText", 0)
    /\ UNCHANGED <<data, initialized, loading, itemLoading, allowLocalFilter,
                   overridden, completed, calls, settleQueue, lastWriter, lastResolved>>

\* filter$.next(f)
SetFilterText(f) ==
    /\ filter' = f
    /\ emitted' = FilterNext(f)
    /\ lastOp' = Op("setFilterText", 0)
    /\ UNCHANGED <<data, count, initialized, loading, itemLoading, allowLocalFilter,
                   overridden, completed, calls, settleQueue, lastWriter, lastResolved>>

\* DestroyObservable.onDestroy: destroy$.next(true); destroy$.complete()
onDestroy == {"destroy$"}

\* disconnect() that leaves itemLoading$ open
DisconnectKeepsItemLoading ==
    /\ "destroy$" \notin completed
    /\ completed' = completed \cup onDestroy \cup {"data$", "loading$"}
    /\ emitted' = <<>>
    /\ lastOp' = Op("disconnect", 0)
    /\ UNCHANGED <<data, count, initialized, loading, itemLoading, allowLocalFilter, filter,
                   overridden, calls, settleQueue, lastWriter, lastResolved>>

\* disconnect(), called once by the owner
Disconnect ==
    /\ "destroy$" \notin completed
    /\ completed' = completed \cup onDestroy \cup {"data$", "itemLoading$", "loading$"}
    /\ emitted' = <<>>
    /\ lastOp' = Op("disconnect", 0)
    /\ UNCHANGED <<data, count, initialized, loading, itemLoading, allowLocalFilter, filter,
                   overridden, calls, settleQueue, lastWriter, lastResolved>>

Next ==
    \/ Initialize
    \/ Refresh
    \/ \E c \in 1..Len(calls) : \E R \in SampleResults : RetrievalResolves(c, R)
    \/ \E c \in 1..Len(calls) : \E e \in Errors : RetrievalRejects(c, e)
    \/ \E c \in 1..Len(calls) : \E T \in SampleResults : TransformResolves(c, T)
    \/ \E c \in 1..Len(calls) : \E e \in Errors : TransformRejects(c, e)
    \/ InitializeSettles
    \/ RefreshSettles
    \/ Reset
    \/ \E f \in FilterTexts : SetFilterText(f)
    \/ Disconnect

Spec == Init /\ [][Next]_vars

(***************************************************************************)
(* Local filtering on its own: the data source after one initialize() whose *)
(* retrieval resolved with some list, and a consumer typing filter texts.  *)
(***************************************************************************)
FilterItems == {NullItem, ItemAl, ItemBo, ItemFoO, ItemNoFields}

FilterLists == UNION {[1..n -> FilterItems] : n \in 0..MaxItems}

\* "", "al", " AL ", " ", "foo", "reno", "o" + the first character of the delimiter,
\* the delimiter
FilterPool ==
    { <<>>,
      <<"a", "l">>,
      <<" ", "A", "L", " ">>,
      <<" ">>,
      <<"f", "o", "o">>,
      <<"r", "e", "n", "o">>,
      <<"o", "d1">>,
      Delimiter }

\* the state after initialize() resolved with the list rs (no count) and the default
\* transformDataItems
InitFilter ==
    \E rs \in FilterLists :
        /\ data = rs
        /\ count = TotalCount(Pageable(rs, FALSE, 0))
        /\ initialized = TRUE
        /\ loading = FALSE
        /\ itemLoading = FALSE
        /\ allowLocalFilter \in BOOLEAN
        /\ filter = <<>>
        /\ overridden = FALSE
        /\ completed = {}
        /\ calls = <<Call("initialize", "resolved", Pageable(rs, FALSE, 0), "none")>>
        /\ settleQueue = <<>>
        /\ lastWriter = 1
        /\ lastResolved = 1
        /\ lastOp = Op("settled", 1)
        /\ emitted = SubjectNext("loading$", FALSE)

NextFilter ==
    \/ \E f \in FilterPool : SetFilterText(f)
    \/ Reset

SpecFilter == InitFilter /\ [][NextFilter]_vars

(***************************************************************************)
(* Late subscribers: Spec with consumers that subscribe to filteredData$   *)
(* at any time.                                                            *)
(***************************************************************************)
\* filteredData$.subscribe() over plain Subjects, which replay nothing
SubscribeNoReplay ==
    /\ emitted' = <<>>
    /\ lastOp' = Op("subscribe", 0)
    /\ UNCHANGED <<data, count, initialized, loading, itemLoading, allowLocalFilter, filter,
                   overridden, completed, calls, settleQueue, lastWriter, lastResolved>>

\* filteredData$.subscribe(): mergeWith subscribes to filter$ and then to data$, and a
\* BehaviorSubject that has not completed hands its current value to a new subscriber
\* at once; each of the two values runs the pipe
Subscribe ==
    /\ emitted' =
          (IF "filter$" \in completed THEN <<>>
           ELSE <<Notification("filteredData$", FilteredView(data, filter))>>)
          \o (IF "data$" \in completed THEN <<>>
              ELSE <<Notification("filteredData$", FilteredView(data, filter))>>)
    /\ lastOp' = Op("subscribe", 0)
    /\ UNCHANGED <<data, count, initialized, loading, itemLoading, allowLocalFilter, filter,
                   overridden, completed, calls, settleQueue, lastWriter, lastResolved>>

NextSubscribe ==
    \/ Next
    \/ Subscribe

SpecSubscribe == Init /\ [][NextSubscribe]_vars

(***************************************************************************)
(* Properties                                                              *)
(***************************************************************************)
Calls == 1..Len(calls)

\* has the stream delivered its completion to its subscribers?  filteredData$ is a
\* merge of filter$ and data$ and completes when both have.
Completed(stream) ==
    IF stream = "filteredData$" THEN {"filter$", "data$"} \subseteq completed
    ELSE stream \in completed

Disposed == "destroy$" \in completed

Exposed == {"data$", "filteredData$", "count$", "loading$"}

\* C1: once initialize() has resolved, and as long as nothing else has written data$
\* since, items is the results list of the transformed retrieval result, in order.
C1_InitializeItems ==
    \A c \in Calls :
        (calls[c].kind = "initialize" /\ calls[c].pc = "resolved" /\ lastWriter = c)
            => data = calls[c].value.results

C1_Witness ==
    \E c \in Calls :
        /\ calls[c].kind = "initialize" /\ calls[c].pc = "resolved" /\ lastWriter = c
        /\ overridden
        /\ data = <<ItemBo, ItemAl>>

\* C2: after a successful initialize() or refresh() with transformed result T,
\* totalCount is T.count whenever T carries a count (0 included) and the length of
\* T.results only when the count is absent.
C2_ExplicitCount ==
    \A c \in Calls :
        (calls[c].pc = "resolved" /\ lastWriter = c)
            => count = IF calls[c].value.hasCount THEN calls[c].value.count
                       ELSE Len(calls[c].value.results)

\* C3: when the promise of refresh() has rejected, isLoading is false.
C3_RejectedRefreshNotLoading ==
    (lastOp.op = "settled" /\ calls[lastOp.call].kind = "refresh"
        /\ calls[lastOp.call].pc = "rejected") => ~loading

\* C4: isLoading is true exactly when some retrieval/transform cycle is in progress.
C4_LoadingIffInProgress ==
    loading <=> (\E c \in Calls : calls[c].pc \in InFlight)

\* C5: initialize() sets isLoading before the retrieval starts, and isLoading is
\* false when its promise settles, resolved or rejected.
C5_InitializeLoading ==
    /\ lastOp.op = "initialize" => (loading /\ calls[lastOp.call].pc = "retrieving")
    /\ (lastOp.op = "settled" /\ calls[lastOp.call].kind = "initialize") => ~loading

C5_Witness ==
    /\ lastOp.op = "settled"
    /\ calls[lastOp.call].kind = "initialize"
    /\ calls[lastOp.call].pc = "rejected"
    /\ ~loading

\* C6: a cycle whose retrieval or transform rejects writes neither items nor
\* totalCount: the steps that fail and settle it leave both as they were, and the
\* current snapshot is never the work of a failed call.
C6_FailedCycleKeepsSnapshot ==
    /\ [](\A c \in Calls : calls[c].pc \in {"failed", "rejected"} => lastWriter # c)
    /\ [][\A c \in 1..Len(calls') :
            (lastOp'.call = c /\ calls'[c].pc \in {"failed", "rejected"})
                => (data' = data /\ count' = count)]_vars

C6_Witness ==
    /\ lastOp.op = "transformRejected"
    /\ calls[lastOp.call].pc = "failed"
    /\ data = <<ItemAl, ItemBo>>
    /\ count = 5

\* C7: once dispose() has run, items, filteredItems, totalCount and isLoading have
\* all completed.
C7_DisposeCompletesAll ==
    Disposed => \A stream \in Exposed : Completed(stream)

\* C8: after dispose() no subscriber of items, filteredItems, totalCount or isLoading
\* receives a further value.
C8_NoEmissionAfterDispose ==
    Disposed => \A i \in 1..Len(emitted) : emitted[i].stream \notin Exposed

\* C9: overlapping calls race: when no publication is waiting to settle and nothing
\* was reset since, items and totalCount are those of the call that resolved last,
\* whichever was issued first.
C9_LastResolvedWins ==
    (lastResolved # 0 /\ lastWriter # 0 /\ \A c \in Calls : calls[c].pc # "published")
        => /\ lastWriter = lastResolved
           /\ data = calls[lastResolved].value.results
           /\ count = TotalCount(calls[lastResolved].value)

C9_Witness ==
    /\ Len(calls) >= 2
    /\ calls[1].pc = "resolved" /\ calls[2].pc = "resolved"
    /\ lastResolved = 1
    /\ calls[1].value.results # calls[2].value.results
    /\ data = calls[1].value.results

\* C10: right after reset(), items is empty and totalCount is 0, whatever was there
\* before and whatever is in flight.
C10_ResetClears ==
    lastOp.op = "reset" => (data = <<>> /\ count = 0)

C10_Witness ==
    /\ lastOp.op = "reset"
    /\ data = <<>> /\ count = 0
    /\ \E c, d \in Calls : calls[c].pc = "resolved" /\ calls[d].pc = "transforming"

\* C11: reset() leaves isLoading, filterText and initialized as they were and starts no
\* retrieval: no call is added and no call in flight moves.
C11_ResetFrame ==
    [][lastOp'.op = "reset"
        => /\ loading' = loading
           /\ filter' = filter
           /\ initialized' = initialized
           /\ calls' = calls
           /\ settleQueue' = settleQueue]_vars

C11_Witness ==
    /\ lastOp.op = "reset"
    /\ loading
    /\ initialized
    /\ filter # <<>>
    /\ \E c \in Calls : calls[c].pc = "retrieving"

\* the values delivered on filteredData$ by the last step, in order
DeliveredViews ==
    LET at == SelectSeq(emitted, LAMBDA n : n.stream = "filteredData$")
    IN  [i \in 1..Len(at) |-> at[i].value]

\* connect() without takeUntil: filteredData$ itself
connectUnguarded == DeliveredViews

\* connect(): filteredData$.pipe(takeUntil(destroy$)), as seen by a subscriber made
\* before disconnect(): the values of filteredData$ until destroy$ fires
connect == IF "destroy$" \in completed THEN <<>> ELSE DeliveredViews

\* C12: every value delivered on filteredItems is the filter applied to the items, the
\* filter text and allowLocalFilter that are current when it is delivered.
C12_ViewOfCurrentPair ==
    \A i \in 1..Len(DeliveredViews) :
        DeliveredViews[i] =
            IF filter = <<>> \/ ~allowLocalFilter THEN data
            ELSE SelectSeq(data, LAMBDA item : Truthy(item) /\ filterPredicate(item, filter))

C12_Witness ==
    /\ lastOp.op = "published"
    /\ allowLocalFilter
    /\ filter = <<"a", "l">>
    /\ data = <<ItemBo, ItemAl>>
    /\ DeliveredViews = <<<<ItemAl>>>>

\* C13: with an empty filter text, or with local filtering disabled whatever the text,
\* the delivered view is items itself: same entries, same order, falsy ones included.
C13_UnfilteredView ==
    (filter = <<>> \/ ~allowLocalFilter)
        => \A i \in 1..Len(DeliveredViews) : DeliveredViews[i] = data

C13_Witness ==
    /\ ~allowLocalFilter
    /\ filter = <<"f", "o", "o">>
    /\ data = <<NullItem, ItemAl>>
    /\ DeliveredViews = <<data>>

\* the stringified field values of an item, each followed by the delimiter
RECURSIVE C14_Concatenation(_, _)
C14_Concatenation(item, n) ==
    IF n = 0 THEN <<>>
    ELSE C14_Concatenation(item, n - 1)
            \o (IF Fields(item)[n].isNull THEN <<>> ELSE Fields(item)[n].text)
            \o Delimiter

C14_IsSubstring(needle, hay) ==
    \E i \in 0..Len(hay) : \E j \in i..Len(hay) : SubSeq(hay, i + 1, j) = needle

C14_Matches(item, f) ==
    C14_IsSubstring(ToLowerCase(Trim(f)),
                    ToLowerCase(C14_Concatenation(item, Len(Fields(item)))))

\* C14: with local filtering enabled and a non-empty filter text, the delivered view
\* keeps exactly the (truthy) items for which the trimmed, lower-cased text is a
\* substring of the lower-cased concatenation of the stringified field values, each
\* followed by the delimiter, a null field counting as the empty string.
C14_RetainedIffSubstring ==
    (allowLocalFilter /\ filter # <<>>)
        => \A i \in 1..Len(DeliveredViews) :
              DeliveredViews[i] =
                  SelectSeq(data, LAMBDA item : Truthy(item) /\ C14_Matches(item, filter))

C14_Witness ==
    /\ allowLocalFilter
    /\ filter = <<" ", "A", "L", " ">>
    /\ data = <<ItemAl, ItemBo>>
    /\ DeliveredViews = <<<<ItemAl>>>>

C15_InSingleField(item, f) ==
    \E k \in 1..Len(Fields(item)) :
        Contains(ToLowerCase(propToString(Fields(item)[k])), ToLowerCase(Trim(f)))

\* C15: with local filtering enabled and a non-empty filter text that does not contain
\* the delimiter, every retained item has a single field whose stringified value
\* contains the trimmed, lower-cased text; the item with fields "fo" and "o" is never
\* retained for the text "foo".
C15_NoCrossFieldMatch ==
    (allowLocalFilter /\ filter # <<>> /\ ~Contains(filter, Delimiter))
        => \A i \in 1..Len(DeliveredViews) :
              \A k \in 1..Len(DeliveredViews[i]) :
                  C15_InSingleField(DeliveredViews[i][k], filter)

\* C16: setting the filter text to the text it already has, right after setting it,
\* delivers the same filtered view again.
C16_SetFilterTextIdempotent ==
    [][(lastOp.op = "setFilterText" /\ lastOp'.op = "setFilterText" /\ filter' = filter)
          => /\ Len(DeliveredViews') = 1
             /\ DeliveredViews' = DeliveredViews]_vars

C16_Witness ==
    /\ lastOp.op = "setFilterText"
    /\ allowLocalFilter
    /\ filter = <<"r", "e", "n", "o">>
    /\ data = <<ItemBo, ItemAl>>
    /\ DeliveredViews = <<<<ItemAl>>>>

\* C17: setFilterText changes the filter text and the filtered view only: the items,
\* the total count, the loading flag and the initialized flag keep their values, and
\* no retrieval is started or advanced.
C17_SetFilterTextFrame ==
    [][lastOp'.op = "setFilterText"
          => /\ data' = data
             /\ count' = count
             /\ loading' = loading
             /\ initialized' = initialized
             /\ calls' = calls
             /\ settleQueue' = settleQueue]_vars

C17_Witness ==
    /\ lastOp.op = "setFilterText"
    /\ filter = <<"a", "l">>
    /\ data = <<ItemAl, ItemBo>>
    /\ count = 5
    /\ loading
    /\ initialized
    /\ DeliveredViews = <<<<ItemAl>>>>

\* C18: a rejection of retrieveDataItems or of transformDataItems is never swallowed:
\* a call whose initializeData() failed with an error never resolves, and its promise
\* rejects with that very error, for initialize() and for refresh() alike.
C18_RejectionPropagates ==
    [][\A c \in Calls :
          /\ calls[c].pc = "failed"
                => /\ calls'[c].pc \in {"failed", "rejected"}
                   /\ calls'[c].error = calls[c].error
          /\ calls'[c].pc \in {"failed", "rejected"} => calls'[c].error \in Errors
          /\ calls'[c].pc = "resolved" => calls[c].pc \in {"published", "resolved"}]_vars

C18_Witness ==
    /\ Len(calls) = 2
    /\ overridden
    /\ calls[1].kind = "initialize" /\ calls[1].pc = "rejected" /\ calls[1].error = "E1"
    /\ calls[2].kind = "refresh" /\ calls[2].pc = "rejected" /\ calls[2].error = "E2"

\* C19: refresh() runs the cycle of initialize() and can be called again and again; as
\* long as nothing else has written data$ since it published, items is the results
\* list of the result refresh() returns.
C19_RefreshReturnsPublished ==
    \A c \in Calls :
        (/\ calls[c].kind = "refresh"
         /\ calls[c].pc \in {"published", "resolved"}
         /\ lastWriter = c)
            => data = calls[c].value.results

C19_Witness ==
    /\ Len(calls) = 2
    /\ overridden
    /\ calls[1].kind = "refresh" /\ calls[1].pc = "resolved"
    /\ calls[2].kind = "refresh" /\ calls[2].pc = "resolved"
    /\ calls[1].value.results = <<ItemAl, ItemBo>>
    /\ lastWriter = 2
    /\ data = <<ItemBo, ItemAl>>

\* C20: without an override, transformDataItems is the identity: the step that
\* publishes takes items and the total count from the retrieval result itself, and
\* that result is what the call returns.
C20_DefaultTransformIdentity ==
    [][\A c \in Calls :
          (~overridden /\ calls[c].pc = "transforming" /\ calls'[c].pc = "published")
              => /\ data' = calls[c].value.results
                 /\ count' = TotalCount(calls[c].value)
                 /\ calls'[c].value = calls[c].value]_vars

C20_Witness ==
    /\ ~overridden
    /\ lastOp.op = "published"
    /\ calls[lastOp.call].value = Pageable(<<ItemAl, ItemBo>>, TRUE, 5)
    /\ data = <<ItemAl, ItemBo>>
    /\ count = 5

\* the positions a call can move to in one step: retrieveDataItems is pending in
\* "retrieving" and transformDataItems in "transforming"
C21_Successors(pc) ==
    CASE pc = "retrieving" -> {"transforming", "failed"}
      [] pc = "transforming" -> {"published", "failed"}
      [] pc = "published" -> {"resolved"}
      [] pc = "failed" -> {"rejected"}
      [] OTHER -> {}

\* C21: no retry: a call of initialize() or refresh() invokes retrieveDataItems once,
\* when it is made, and transformDataItems at most once, when that retrieval resolves;
\* a call never returns to a retrieval or a transform it has left, and a rejected
\* retrieval is never followed by a transform.
C21_NoRetry ==
    [][/\ \A c \in Calls :
              calls'[c].pc # calls[c].pc => calls'[c].pc \in C21_Successors(calls[c].pc)
       /\ \A c \in 1..Len(calls') : c \notin Calls => calls'[c].pc = "retrieving"
       /\ \A c \in Calls :
              (calls[c].pc = "retrieving" /\ calls'[c].pc = "failed")
                  => lastOp'.op = "retrievalRejected"]_vars

C21_Witness ==
    /\ Len(calls) = 2
    /\ overridden
    /\ calls[1].kind = "initialize" /\ calls[1].pc = "rejected"
    /\ calls[2].kind = "refresh" /\ calls[2].pc = "resolved"
    /\ lastOp = Op("settled", 1)

\* the streams the last step delivered on, in order
EmittedStreams == [i \in 1..Len(emitted) |-> emitted[i].stream]

C23_EveryChangeRecomputes ==
    (~Disposed /\ lastOp.op \in {"published", "reset", "setFilterText"})
        => DeliveredViews = <<FilteredView(data, filter)>>

C23_Witness ==
    /\ ~Disposed
    /\ lastOp.op = "reset"
    /\ calls = <<>>
    /\ allowLocalFilter
    /\ filter = <<"a", "l">>
    /\ DeliveredViews = << <<>> >>

\* C24: no cancellation: a later initialize(), refresh(), reset() or setFilterText()
\* leaves every call in flight where it is, a pending retrieval can still resolve and
\* a pending transform can still publish; a cycle that publishes right after a reset()
\* was started before it and writes its results over the emptied list.
C24_NoCancellation ==
    /\ [](\A c \in Calls :
            /\ calls[c].pc = "retrieving"
                  => ENABLED (\E R \in SampleResults : RetrievalResolves(c, R))
            /\ calls[c].pc = "transforming"
                  => ENABLED (\E T \in SampleResults : TransformResolves(c, T)))
    /\ [][/\ lastOp'.op \in {"initialize", "refresh", "reset", "setFilterText"}
                => \A c \in Calls : calls'[c] = calls[c]
          /\ (lastOp.op = "reset" /\ lastOp'.op = "published")
                => /\ data = <<>>
                   /\ Len(calls') = Len(calls)
                   /\ data' = calls'[lastOp'.call].value.results
                   /\ data' # <<>>]_vars

C24_Witness ==
    /\ lastOp.op = "reset"
    /\ Len(calls) = 1
    /\ calls[1].pc = "transforming"
    /\ calls[1].value.results = <<ItemBo, ItemAl>>
    /\ data = <<>>
    /\ ENABLED (/\ TransformResolves(1, calls[1].value)
                /\ data' = <<ItemBo, ItemAl>>)

\* C25: the stream of connect() delivers the values of filteredItems until dispose():
\* disconnect() completes it, and its subscriber receives nothing afterwards, whatever
\* filteredItems still delivers.
C25_ConnectStopsAtDispose ==
    /\ ~Disposed => connect = DeliveredViews
    /\ lastOp.op = "disconnect" => Disposed
    /\ Disposed => connect = <<>>

C25_Witness ==
    /\ Disposed
    /\ lastOp.op = "setFilterText"
    /\ DeliveredViews = <<data>>
    /\ data # <<>>
    /\ connect = <<>>

\* C26: initialized is true exactly when initialize() has been called: false after
\* construction, true from the start of initialize() on (whatever its retrieval does),
\* not set by refresh(), and never set back by reset(), refresh(), setFilterText() or
\* dispose().
C26_InitializedIffInitializeCalled ==
    /\ initialized <=> (\E c \in Calls : calls[c].kind = "initialize")
    /\ lastOp.op = "initialize" => (initialized /\ calls[lastOp.call].pc = "retrieving")
    /\ lastOp.op = "constructor" => ~initialized

C26_Witness ==
    /\ initialized
    /\ Len(calls) = 2
    /\ calls[1].kind = "initialize" /\ calls[1].pc = "rejected"
    /\ calls[2].kind = "refresh"
    /\ Disposed
    /\ lastOp.op = "reset"

\* the places of the stream in what the last step delivered
C27_Places(stream) == {i \in 1..Len(emitted) : emitted[i].stream = stream}

\* C27: between the steps that publish, items and totalCount stem from one source:
\* both from the transformed result of the call that wrote last, or both from reset()
\* (or the constructor): the empty list and 0.  In a publishing step items is
\* delivered before totalCount.
C27_SnapshotFromOneSource ==
    /\ lastWriter = 0 => (data = <<>> /\ count = 0)
    /\ lastWriter # 0
          => /\ lastWriter \in Calls
             /\ calls[lastWriter].pc \in {"published", "resolved"}
             /\ data = calls[lastWriter].value.results
             /\ count = TotalCount(calls[lastWriter].value)
    /\ lastOp.op = "reset" => lastWriter = 0
    /\ lastOp.op = "published" => lastWriter = lastOp.call
    /\ lastOp.op \in {"published", "reset"}
          => /\ \A i \in C27_Places("data$") : \A j \in C27_Places("count$") : i < j
             /\ Cardinality(C27_Places("count$")) = 1
             /\ emitted[Len(emitted)] = Notification("count$", count)

C27_Witness ==
    /\ lastOp = Op("published", 2)
    /\ calls[1].pc = "resolved"
    /\ calls[1].value = Pageable(<<ItemAl, ItemBo>>, TRUE, 5)
    /\ calls[2].value = Pageable(<<ItemBo, ItemAl>>, FALSE, 0)
    /\ data = <<ItemBo, ItemAl>>
    /\ count = 2
    /\ EmittedStreams = <<"data$", "filteredData$", "count$">>

\* v is d with some entries left out: there are strictly increasing places of d that
\* hold the entries of v
C28_IsSubsequence(v, d) ==
    \E at \in [1..Len(v) -> 1..Len(d)] :
        /\ \A i, j \in 1..Len(v) : i < j => at[i] < at[j]
        /\ \A i \in 1..Len(v) : d[at[i]] = v[i]

\* C28: in every reachable state the filtered view, and every view delivered on
\* filteredItems, is an order-preserving subsequence of items: no entry that is not in
\* items, none more often than in items, all in the order of items.
C28_ViewIsSubsequence ==
    /\ C28_IsSubsequence(FilteredView(data, filter), data)
    /\ \A i \in 1..Len(DeliveredViews) : C28_IsSubsequence(DeliveredViews[i], data)

C28_Witness ==
    /\ allowLocalFilter
    /\ filter = <<"o", "d1">>
    /\ data = <<ItemFoO, ItemBo>>
    /\ DeliveredViews = << <<ItemFoO, ItemBo>> >>

\* C29: with local filtering enabled and a non-empty filter text the falsy entries of
\* items are dropped and the predicate decides on the truthy ones only; with an empty
\* text or local filtering disabled they stay in the view.
C29_FalsyEntries ==
    \A i \in 1..Len(DeliveredViews) :
        IF allowLocalFilter /\ filter # <<>>
        THEN /\ \A k \in 1..Len(DeliveredViews[i]) : DeliveredViews[i][k] # NullItem
             /\ DeliveredViews[i] =
                    SelectSeq(SelectSeq(data, Truthy),
                              LAMBDA item : filterPredicate(item, filter))
        ELSE /\ DeliveredViews[i] = data
             /\ \A k \in 1..Len(data) : data[k] = NullItem => DeliveredViews[i][k] = NullItem

C29_Witness ==
    /\ allowLocalFilter
    /\ filter = <<"a", "l">>
    /\ data = <<NullItem, ItemAl>>
    /\ DeliveredViews = << <<ItemAl>> >>

\* C30: a filter text that is not empty but all whitespace is an active filter whose
\* trimmed form is empty: with local filtering enabled the view keeps every truthy
\* entry of items, entries with no fields included, and drops the falsy ones.
C30_BlankFilterKeepsTruthy ==
    (/\ allowLocalFilter
     /\ filter # <<>>
     /\ \A k \in 1..Len(filter) : filter[k] \in Whitespace)
        => \A i \in 1..Len(DeliveredViews) : DeliveredViews[i] = SelectSeq(data, Truthy)

C30_Witness ==
    /\ allowLocalFilter
    /\ filter = <<" ">>
    /\ data = <<ItemNoFields, NullItem>>
    /\ DeliveredViews = << <<ItemNoFields>> >>

\* C31: initialize() is not guarded by the initialized flag: it can be called again,
\* after or during an earlier call, and then runs a full cycle of its own: it invokes
\* retrieveDataItems, sets isLoading and announces it, publishes its result when its
\* transform resolves, and resets isLoading when it settles.
C31_InitializeNotGuarded ==
    /\ Len(calls) < MaxCalls => ENABLED Initialize
    /\ lastOp.op = "initialize"
          => /\ calls[lastOp.call] = Call("initialize", "retrieving", EmptyResult, "none")
             /\ loading
             /\ emitted = SubjectNext("loading$", TRUE)
    /\ \A c \in Calls :
          calls[c].kind = "initialize"
              => /\ calls[c].pc = "transforming"
                    => ENABLED (\E T \in SampleResults : TransformResolves(c, T))
                 /\ lastOp = Op("published", c) => data = calls[c].value.results
                 /\ lastOp = Op("settled", c) => ~loading

C31_Witness ==
    /\ Len(calls) = 2
    /\ calls[1].kind = "initialize" /\ calls[1].pc = "transforming"
    /\ calls[2].kind = "initialize"
    /\ lastOp = Op("published", 2)
    /\ loading
    /\ data = <<ItemBo, ItemAl>>

\* C32: a consumer that subscribes to filteredItems before dispose() receives in the
\* subscribing step itself the view of the current items and filter text (once for
\* filter$ and once for data$), and nothing else; as long as nothing has been
\* published that view is the empty list.
C32_SubscriberGetsCurrentView ==
    (~Disposed /\ lastOp.op = "subscribe")
        => /\ DeliveredViews = <<FilteredView(data, filter), FilteredView(data, filter)>>
           /\ Len(emitted) = 2
           /\ (\A c \in Calls : calls[c].pc \notin {"published", "resolved"})
                 => DeliveredViews = << <<>>, <<>> >>

C32_Witness ==
    /\ ~Disposed
    /\ lastOp.op = "subscribe"
    /\ allowLocalFilter
    /\ filter = <<"a", "l">>
    /\ data = <<ItemAl, ItemBo>>
    /\ DeliveredViews = << <<ItemAl>>, <<ItemAl>> >>

\* C33: actualDataLength is the number of truthy entries of the current items: it
\* never exceeds the length of items and is 0 right after reset().
C33_ActualDataLength ==
    /\ actualDataLength(data) = Cardinality({k \in 1..Len(data) : data[k] # NullItem})
    /\ actualDataLength(data) <= Len(data)
    /\ lastOp.op = "reset" => actualDataLength(data) = 0

C33_Witness ==
    /\ lastOp.op = "published"
    /\ data = <<NullItem, ItemAl>>
    /\ actualDataLength(data) = 1

\* C34: no operation of the data source writes itemLoading$: its value is false in
\* every state, no step delivers a value on it, and it completes with disconnect(),
\* not before.
C34_ItemLoadingUntouched ==
    /\ itemLoading = FALSE
    /\ \A i \in 1..Len(emitted) : emitted[i].stream # "itemLoading$"
    /\ "itemLoading$" \in completed <=> Disposed

C34_Witness ==
    /\ Disposed
    /\ "itemLoading$" \in completed
    /\ itemLoading = FALSE
    /\ lastOp.op = "settled"
    /\ \E c, d \in Calls :
          /\ calls[c].kind = "initialize" /\ calls[c].pc = "resolved"
          /\ calls[d].kind = "refresh" /\ calls[d].pc = "rejected"
    /\ filter # <<>>

====
